---- MODULE Spec2Model ----
(***************************************************************************)
(* Model of the LWA lead-capture backend: an Express application that      *)
(* validates two form submissions (booking, contact), sanitizes their      *)
(* fields and relays them as one email each through a mail transport.      *)
(*                                                                         *)
(* The repository holds three copies of the application:                   *)
(*   "server"  : src/server.js                                             *)
(*   "full"    : src/unnamed/part_000, lines 1-256                         *)
(*   "compact" : src/unnamed/part_000, lines 258-347                       *)
(* The variable build says which copy is deployed.                         *)
(*                                                                         *)
(* Strings are sequences of one-character strings.                         *)
(***************************************************************************)
EXTENDS Integers, Sequences, FiniteSets, TLC

(***************************************************************************)
(* String primitives (JavaScript String methods used by the code).         *)
(***************************************************************************)

\* c repeated n times (as a tuple)
Rep(c, n) == [i \in 1..n |-> c] \o <<>>

\* white space removed by String.prototype.trim and by the validator's trim()
WhiteSpace == {" ", "\t"}

\* white space stripped from the start
RECURSIVE LTrim(_)
LTrim(s) == IF s # <<>> /\ Head(s) \in WhiteSpace THEN LTrim(Tail(s)) ELSE s

\* white space stripped from the end
RECURSIVE RTrim(_)
RTrim(s) ==
  IF s # <<>> /\ s[Len(s)] \in WhiteSpace THEN RTrim(SubSeq(s, 1, Len(s) - 1)) ELSE s

\* str.trim(); a string of white space only is emptied at once
Trim(s) ==
  IF \A i \in 1..Len(s) : s[i] \in WhiteSpace THEN <<>> ELSE RTrim(LTrim(s))

\* str.substring(0, n)
Substring0(s, n) == IF Len(s) <= n THEN s ELSE SubSeq(s, 1, n)

\* whether the character c occurs in s
Contains(s, c) == \E i \in 1..Len(s) : s[i] = c

\* str.replace(/c/g, rep): every occurrence of the character c becomes rep
\* (a string without c is returned as it is; otherwise each half is replaced)
RECURSIVE ReplaceAll(_, _, _)
ReplaceAll(s, c, rep) ==
  IF \A i \in 1..Len(s) : s[i] # c THEN s
  ELSE IF Len(s) = 1 THEN rep
  ELSE LET m == Len(s) \div 2
       IN  ReplaceAll(SubSeq(s, 1, m), c, rep) \o ReplaceAll(SubSeq(s, m + 1, Len(s)), c, rep)

(***************************************************************************)
(* The deployed copy of the application, and what the copies differ in.    *)
(***************************************************************************)

Builds == {"server", "full", "compact"}

\* part_000:104-108,178: only the full copy declares isLength({max}) on the
\* text fields firstName, lastName, time and name
HasLengthLimits(b) == b = "full"

\* part_000:245-251: only the full copy installs an error-handling middleware
HasErrorHandler(b) == b = "full"

\* part_000:89-90: only the full copy's sanitize also replaces the two quotes
SanitizeQuotes(b) == b = "full"

(***************************************************************************)
(* JavaScript values of a request field: a string, or undefined / null.    *)
(***************************************************************************)

Undefined == [t |-> "undefined", v |-> <<>>]
Null == [t |-> "null", v |-> <<>>]
Str(s) == [t |-> "string", v |-> s]

\* !str
Falsy(x) == x.t # "string" \/ x.v = <<>>

\* the validator's toString: undefined and null become ''
toStringValue(x) == IF x.t = "string" THEN x.v ELSE <<>>

(***************************************************************************)
(* sanitize                                                                *)
(***************************************************************************)

LT == <<"&", "l", "t", ";">>
GT == <<"&", "g", "t", ";">>
QUOT == <<"&", "q", "u", "o", "t", ";">>
APOS == <<"&", "#", "x", "2", "7", ";">>
AMP == <<"&", "a", "m", "p", ";">>
SLASH == <<"&", "#", "x", "2", "F", ";">>
BSLASH == <<"&", "#", "x", "5", "C", ";">>
BTICK == <<"&", "#", "9", "6", ";">>

\* substring(0, 500)
SanitizeCap == 500

\* the chain of .replace calls of sanitize
EscapeAngles(s) == ReplaceAll(ReplaceAll(s, "<", LT), ">", GT)

EscapeQuotes(s) == ReplaceAll(ReplaceAll(s, "\"", QUOT), "'", APOS)

SanitizeReplace(b, s) ==
  IF SanitizeQuotes(b) THEN EscapeQuotes(EscapeAngles(s)) ELSE EscapeAngles(s)

\* a sanitize without its substring(0, 500)
sanitizeUncapped(b, x) ==
  IF Falsy(x) THEN <<>> ELSE Trim(SanitizeReplace(b, x.v))

\* a sanitize that also replaces the ampersand
sanitizeAmpersand(b, x) ==
  IF Falsy(x) THEN <<>>
  ELSE Substring0(Trim(SanitizeReplace(b, ReplaceAll(x.v, "&", AMP))), SanitizeCap)

\* function sanitize(str)
sanitize(b, x) ==
  IF Falsy(x) THEN <<>>
  ELSE Substring0(Trim(SanitizeReplace(b, x.v)), SanitizeCap)

(***************************************************************************)
(* The express-validator chain items the routes use (validator.js).        *)
(***************************************************************************)

UpperSeq == <<"A","B","C","D","E","F","G","H","I","J","K","L","M",
              "N","O","P","Q","R","S","T","U","V","W","X","Y","Z">>
LowerSeq == <<"a","b","c","d","e","f","g","h","i","j","k","l","m",
              "n","o","p","q","r","s","t","u","v","w","x","y","z">>
Letters == {UpperSeq[i] : i \in 1..26} \cup {LowerSeq[i] : i \in 1..26}
Digits == {"0","1","2","3","4","5","6","7","8","9"}

ToLowerChar(c) ==
  IF \E i \in 1..26 : UpperSeq[i] = c
  THEN LowerSeq[CHOOSE i \in 1..26 : UpperSeq[i] = c]
  ELSE c

\* str.toLowerCase()
ToLowerCase(s) == [i \in 1..Len(s) |-> ToLowerChar(s[i])] \o <<>>

\* the grave accent character (written out: the parser does not take it in a
\* string literal that a quote character follows)
Grave == "GRAVE"

\* .escape(): ampersand, double quote, single quote, less-than, greater-than,
\* slash, backslash and grave accent become entities, in the order of validator.js
Escape(s) ==
  LET s1 == ReplaceAll(s, "&", AMP)
      s2 == ReplaceAll(s1, "\"", QUOT)
      s3 == ReplaceAll(s2, "'", APOS)
      s4 == ReplaceAll(s3, "<", LT)
      s5 == ReplaceAll(s4, ">", GT)
      s6 == ReplaceAll(s5, "/", SLASH)
      s7 == ReplaceAll(s6, "\\", BSLASH)
  IN  ReplaceAll(s7, Grave, BTICK)

\* the characters of an unquoted local part, and of a domain label
EmailUserChars == Letters \cup Digits \cup {"'", "+", "-", "_", "&", "/", "=", "!", "#"}
DomainLabelChars == Letters \cup Digits

\* a non-empty dot-separated list of non-empty atoms over chars
DotAtoms(s, chars) ==
  /\ s # <<>>
  /\ \A i \in 1..Len(s) : s[i] \in chars \cup {"."}
  /\ s[1] # "." /\ s[Len(s)] # "."
  /\ \A i \in 1..(Len(s) - 1) : ~(s[i] = "." /\ s[i + 1] = ".")

AtIndex(s) == CHOOSE i \in 1..Len(s) : s[i] = "@"
UserPart(s) == SubSeq(s, 1, AtIndex(s) - 1)
DomainPart(s) == SubSeq(s, AtIndex(s) + 1, Len(s))

\* the last label of a domain
LastDot(d) == CHOOSE i \in 1..Len(d) : d[i] = "." /\ \A j \in (i + 1)..Len(d) : d[j] # "."
Tld(d) == SubSeq(d, LastDot(d) + 1, Len(d))

\* .isEmail() with validator.js's defaults (no display name, no quoted local
\* part, a fully qualified domain with an alphabetic top-level label)
IsEmail(s) ==
  /\ Cardinality({i \in 1..Len(s) : s[i] = "@"}) = 1
  /\ DotAtoms(UserPart(s), EmailUserChars)
  /\ Len(UserPart(s)) <= 64
  /\ DotAtoms(DomainPart(s), DomainLabelChars)
  /\ Len(DomainPart(s)) <= 254
  /\ Contains(DomainPart(s), ".")
  /\ Len(Tld(DomainPart(s))) >= 2
  /\ \A i \in 1..Len(Tld(DomainPart(s))) : Tld(DomainPart(s))[i] \in Letters

GmailDomain == <<"g","m","a","i","l",".","c","o","m">>
GooglemailDomain == <<"g","o","o","g","l","e","m","a","i","l",".","c","o","m">>

\* user.split('+')[0]
BeforePlus(u) ==
  IF Contains(u, "+")
  THEN SubSeq(u, 1, (CHOOSE i \in 1..Len(u) : u[i] = "+" /\ \A j \in 1..(i - 1) : u[j] # "+") - 1)
  ELSE u

RemoveDots(u) == ReplaceAll(u, ".", <<>>)

\* .normalizeEmail() with validator.js's defaults, on an address that passed
\* isEmail: the domain is lower-cased; a Gmail address loses its sub-address
\* and its dots and is lower-cased; any other local part is lower-cased.
\* (The Outlook, Yahoo, iCloud and Yandex rules only concern their domains.)
NormalizeEmail(s) ==
  LET user   == UserPart(s)
      domain == ToLowerCase(DomainPart(s))
  IN  IF domain \in {GmailDomain, GooglemailDomain}
      THEN ToLowerCase(RemoveDots(BeforePlus(user))) \o <<"@">> \o GmailDomain
      ELSE ToLowerCase(user) \o <<"@">> \o domain

TwoDigits(s, i, lo, hi) ==
  /\ s[i] \in Digits /\ s[i + 1] \in Digits
  /\ LET n == 10 * (CHOOSE k \in 0..9 : Digits \cap {s[i]} = {ToString(k)})
              + (CHOOSE k \in 0..9 : Digits \cap {s[i + 1]} = {ToString(k)})
     IN  lo <= n /\ n <= hi

\* .isISO8601() on the calendar forms YYYY, YYYY-MM and YYYY-MM-DD (the week,
\* ordinal and time-of-day forms of the validator's pattern are not drawn)
IsISO8601(s) ==
  /\ Len(s) \in {4, 7, 10}
  /\ \A i \in 1..4 : s[i] \in Digits
  /\ Len(s) >= 7 => (s[5] = "-" /\ TwoDigits(s, 6, 1, 12))
  /\ Len(s) = 10 => (s[8] = "-" /\ TwoDigits(s, 9, 1, 31))

(***************************************************************************)
(* The validation chains of the two form routes.  A chain runs its items   *)
(* in the order written: a sanitizer changes the value the later items     *)
(* see.  Each chain yields whether it recorded no error (ok) and the value *)
(* it leaves in req.body (value).                                          *)
(***************************************************************************)

NameMax == 50
TimeMax == 20
ContactNameMax == 100
MessageMin == 10
MessageMax == 2000

\* a text chain without its .escape()
TextChainUnescaped(b, x, max) ==
  LET v == Trim(toStringValue(x))
  IN  [ok    |-> v # <<>> /\ (HasLengthLimits(b) => Len(v) <= max),
       value |-> v]

\* body(f).trim().notEmpty()[.isLength({ max })].escape()
TextChain(b, x, max) ==
  LET v == Trim(toStringValue(x))
  IN  [ok    |-> v # <<>> /\ (HasLengthLimits(b) => Len(v) <= max),
       value |-> Escape(v)]

\* body('time').notEmpty().trim()[.isLength({ max: 20 })].escape()
TimeChain(b, x) ==
  LET raw == toStringValue(x)
      v   == Trim(raw)
  IN  [ok    |-> raw # <<>> /\ (HasLengthLimits(b) => Len(v) <= TimeMax),
       value |-> Escape(v)]

\* body('email').isEmail().normalizeEmail()
EmailChain(x) ==
  LET raw == toStringValue(x)
  IN  [ok    |-> IsEmail(raw),
       value |-> IF IsEmail(raw) THEN NormalizeEmail(raw) ELSE raw]

\* body('date').notEmpty().isISO8601().toDate()
DateChain(x) ==
  LET raw == toStringValue(x)
  IN  [ok |-> raw # <<>> /\ IsISO8601(raw), value |-> raw]

\* a message chain whose isLength has no max
MessageChainUnbounded(x) ==
  LET v == Trim(toStringValue(x))
  IN  [ok    |-> v # <<>> /\ MessageMin <= Len(v),
       value |-> Escape(v)]

\* body('message').trim().notEmpty().isLength({ min: 10, max: 2000 }).escape()
MessageChain(x) ==
  LET v == Trim(toStringValue(x))
  IN  [ok    |-> v # <<>> /\ MessageMin <= Len(v) /\ Len(v) <= MessageMax,
       value |-> Escape(v)]

\* validationResult(req).isEmpty() on /api/booking
BookingValid(b, body) ==
  /\ TextChain(b, body.firstName, NameMax).ok
  /\ TextChain(b, body.lastName, NameMax).ok
  /\ EmailChain(body.email).ok
  /\ DateChain(body.date).ok
  /\ TimeChain(b, body.time).ok

\* validationResult(req).isEmpty() on /api/contact
ContactValid(b, body) ==
  /\ TextChain(b, body.name, ContactNameMax).ok
  /\ EmailChain(body.email).ok
  /\ MessageChain(body.message).ok

(***************************************************************************)
(* The message handed to transporter.sendMail.  Of the template only the   *)
(* interpolated values are kept (the formatted date is left out).          *)
(***************************************************************************)

NoMail ==
  [kind |-> "none", replyTo |-> <<>>, firstName |-> <<>>, lastName |-> <<>>,
   name |-> <<>>, email |-> <<>>, time |-> <<>>, message |-> <<>>]

\* replyTo: email (server, compact), replyTo: safeEmail (full)
ReplyTo(b, email) == IF b = "full" THEN sanitize(b, Str(email)) ELSE email

BookingMail(b, body) ==
  LET email == EmailChain(body.email).value
  IN  [kind      |-> "booking",
       replyTo   |-> ReplyTo(b, email),
       firstName |-> sanitize(b, Str(TextChain(b, body.firstName, NameMax).value)),
       lastName  |-> sanitize(b, Str(TextChain(b, body.lastName, NameMax).value)),
       name      |-> <<>>,
       email     |-> sanitize(b, Str(email)),
       time      |-> sanitize(b, Str(TimeChain(b, body.time).value)),
       message   |-> <<>>]

\* a contact email whose message is embedded without sanitize
ContactMailUncut(b, body) ==
  LET email == EmailChain(body.email).value
  IN  [kind      |-> "contact",
       replyTo   |-> ReplyTo(b, email),
       firstName |-> <<>>,
       lastName  |-> <<>>,
       name      |-> sanitize(b, Str(TextChain(b, body.name, ContactNameMax).value)),
       email     |-> sanitize(b, Str(email)),
       time      |-> <<>>,
       message   |-> MessageChain(body.message).value]

ContactMail(b, body) ==
  LET email == EmailChain(body.email).value
  IN  [kind      |-> "contact",
       replyTo   |-> ReplyTo(b, email),
       firstName |-> <<>>,
       lastName  |-> <<>>,
       name      |-> sanitize(b, Str(TextChain(b, body.name, ContactNameMax).value)),
       email     |-> sanitize(b, Str(email)),
       time      |-> <<>>,
       message   |-> sanitize(b, Str(MessageChain(body.message).value))]

(***************************************************************************)
(* Responses.  type is how the body was written: "json" (res.json),        *)
(* "text" (res.send of a string), "html" (Express's own error page),       *)
(* "file" (res.sendFile).  success is the body's success member.           *)
(***************************************************************************)

NoResponse == [status |-> 0, type |-> "none", success |-> "absent", message |-> ""]

Json(status, success, message) ==
  [status |-> status, type |-> "json", success |-> success, message |-> message]

InvalidMsg(b) ==
  IF b = "full" THEN "Invalid form data. Please check all fields." ELSE "Invalid data."

FailedMsg(b) ==
  IF b = "full" THEN "Failed to send. Please try again or contact us directly."
  ELSE "Failed to send."

SuccessMsg(b, route) ==
  IF b # "full" THEN ""
  ELSE IF route = "booking" THEN "Booking confirmed! We will be in touch shortly."
  ELSE "Message sent! We will get back to you soon."

FormLimitMsg(b) ==
  IF b = "full" THEN "Too many requests. Please wait 15 minutes and try again."
  ELSE "Too many requests."

\* return res.status(400).json({ success: false, message: ... })
InvalidResponse(b) == Json(400, "false", InvalidMsg(b))

\* res.json({ success: true[, message] })
SuccessResponse(b, route) == Json(200, "true", SuccessMsg(b, route))

\* a catch block that returned err.message to the caller
FailedResponseLeaking(b, err) == Json(500, "false", err)

\* catch (err): res.status(500).json({ success: false, message: 'Failed to send...' })
FailedResponse(b, err) == Json(500, "false", FailedMsg(b))

\* app.get('/api/health')
HealthResponse == [status |-> 200, type |-> "json", success |-> "absent", message |-> "ok"]

\* formLimiter's message option, sent with status 429
FormLimitResponse(b) == Json(429, "false", FormLimitMsg(b))

\* the global limiter has no message option: express-rate-limit sends its
\* default string with res.send
GlobalLimitResponse ==
  [status |-> 429, type |-> "text", success |-> "absent",
   message |-> "Too many requests, please try again later."]

\* callback(new Error('CORS'), false): the error goes to the error-handling
\* middleware where there is one, and to Express's default handler otherwise
\* (status 500 and an HTML page)
CorsErrorResponse(b) ==
  IF HasErrorHandler(b) THEN Json(403, "false", "Access denied.")
  ELSE [status |-> 500, type |-> "html", success |-> "absent",
        message |-> "Internal Server Error"]

\* app.get('*')
CatchAllResponse(b, indexExists) ==
  IF indexExists
  THEN [status |-> 200, type |-> "file", success |-> "absent", message |-> "index.html"]
  ELSE IF HasErrorHandler(b) THEN Json(500, "false", "Internal server error.")
  ELSE [status |-> 404, type |-> "text", success |-> "absent", message |-> "Not found"]

(***************************************************************************)
(* Middleware configuration.                                               *)
(***************************************************************************)

\* process.env.ALLOWED_ORIGINS, split at the commas
AllowedOrigins == {"https://lwa.example"}

\* the origin callback of cors(): "" stands for a request without Origin
OriginAllowed(origin) == origin = "" \/ origin \in AllowedOrigins

\* windowMs (in minutes) and max of the two rate limiters
FormWindow == 15
FormMax == 5
GlobalWindow == 1
GlobalMax == 60

\* a client's entry in a limiter's store: the hits counted in its window and
\* the time the window ends (hits = 0: no entry)
NoHits == [hits |-> 0, resetTime |-> 0]

\* the store's increment(key): an entry whose window has ended starts anew
Increment(entry, t, window) ==
  IF entry.hits = 0 \/ t >= entry.resetTime
  THEN [hits |-> 1, resetTime |-> t + window]
  ELSE [hits |-> entry.hits + 1, resetTime |-> entry.resetTime]

\* a limiter that lets one more request pass
OverLimitLate(entry, max) == entry.hits > max + 1

\* the limiter refuses the request when totalHits > max
OverLimit(entry, max) == entry.hits > max

(***************************************************************************)
(* The requests drawn.                                                     *)
(***************************************************************************)

\* how far beyond a length limit the drawn strings go
MaxOver == 1

\* lengths around a limit n
Around(n) == (n - 1)..(n + MaxOver)

IPs == {"10.0.0.1", "10.0.0.2"}
Client == "10.0.0.1"

NoBody ==
  [firstName |-> Undefined, lastName |-> Undefined, email |-> Undefined,
   date |-> Undefined, time |-> Undefined, name |-> Undefined, message |-> Undefined]

NoRequest ==
  [route |-> "none", origin |-> "", ip |-> "", indexExists |-> FALSE, body |-> NoBody]

\* the strings drawn
FirstNameAl == <<"A","l">>
LastNameLi == <<"L","i">>
EmailPlain == <<"a","@","x",".","i","o">>
DateDay == <<"2","0","2","5","-","0","3","-","0","1">>
TimeTen == <<"1","0","a","m">>
EmailBob == <<"b","o","b","@","e","x","a","m","p","l","e",".","c","o","m">>
NameBob == <<"B","o","b">>
MessageHello == <<"H","e","l","l","o"," ","t","h","e","r","e",","," ","n","e","e","d"," ","h","e","l","p">>
NameBobTagged == <<"<","b",">","B","o","b","<","/","b",">">>
TextSpaced == <<" ","A","l"," ">>
TextTag == <<"<","i",">">>
TextSpecials == <<"a","&","'","\"","/">>
EmailMixedCase == <<"B","o","b","@","E","x","a","m","p","l","e",".","C","O","M">>
EmailApostrophe == <<"o","'","n","@","x",".","i","o">>
EmailGmail == <<"B",".","o","+","t","@","G","M","a","i","l",".","c","o","m">>
EmailNoAt == <<"b","o","b">>
EmailNoTld == <<"a","@","x">>
EmailLeadingSpace == <<" ","a","@","x",".","i","o">>
EmailTwoAt == <<"a","@","@","x",".","i","o">>
EmailAngled == <<"<","a","@","x",".","i","o",">">>
DateMonth == <<"2","0","2","5","-","0","3">>
DateBadMonth == <<"2","0","2","5","-","1","3","-","0","1">>
DateWord == <<"s","o","o","n">>
MessagePadded == <<" "," "," "," "," ","n","e","e","d"," ","i","t"," "," "," "," "," ">>

ValidBooking ==
  [firstName |-> Str(FirstNameAl), lastName |-> Str(LastNameLi), email |-> Str(EmailPlain),
   date |-> Str(DateDay), time |-> Str(TimeTen), name |-> Undefined, message |-> Undefined]

ValidContact ==
  [firstName |-> Undefined, lastName |-> Undefined, email |-> Str(EmailBob),
   date |-> Undefined, time |-> Undefined, name |-> Str(NameBob), message |-> Str(MessageHello)]

\* values of a text field with the limit max
TextValues(max) ==
  {Undefined, Null, Str(<<>>), Str(Rep(" ", 3)), Str(TextSpaced), Str(TextTag), Str(TextSpecials)}
    \cup {Str(Rep("a", n)) : n \in Around(max)}
    \cup {Str(Rep("a", n) \o <<" ">>) : n \in Around(max)}
    \cup {Str(Rep("'", n)) : n \in Around(max)}

EmailValues ==
  {Undefined, Str(<<>>), Str(EmailPlain), Str(EmailBob), Str(EmailMixedCase), Str(EmailApostrophe), Str(EmailGmail),
   Str(EmailNoAt), Str(EmailNoTld), Str(EmailLeadingSpace), Str(EmailTwoAt), Str(EmailAngled)}

DateValues == {Undefined, Str(<<>>), Str(DateDay), Str(DateMonth), Str(DateBadMonth), Str(DateWord)}

MessageValues ==
  {Undefined, Str(<<>>), Str(Rep(" ", 12)), Str(MessageHello), Str(MessagePadded)}
    \cup {Str(Rep("a", n)) : n \in Around(MessageMin) \cup Around(MessageMax)}
    \cup {Str(Rep("a", n) \o <<" ">>) : n \in Around(MessageMax)}
    \cup {Str(<<"a">> \o Rep("<", n)) : n \in Around(SanitizeCap \div 4)}

BookingBodies ==
  {[ValidBooking EXCEPT !.firstName = x] : x \in TextValues(NameMax)}
    \cup {[ValidBooking EXCEPT !.lastName = x] : x \in TextValues(NameMax)}
    \cup {[ValidBooking EXCEPT !.email = x] : x \in EmailValues}
    \cup {[ValidBooking EXCEPT !.date = x] : x \in DateValues}
    \cup {[ValidBooking EXCEPT !.time = x] : x \in TextValues(TimeMax)}

ContactBodies ==
  {[ValidContact EXCEPT !.name = x] : x \in TextValues(ContactNameMax) \cup {Str(NameBobTagged)}}
    \cup {[ValidContact EXCEPT !.email = x] : x \in EmailValues}
    \cup {[ValidContact EXCEPT !.message = x] : x \in MessageValues}

Origins == {"", "https://lwa.example", "https://evil.example"}

Request(route, origin, ip, indexExists, body) ==
  [route |-> route, origin |-> origin, ip |-> ip, indexExists |-> indexExists,
   body |-> body]

\* every route from every origin
RouteRequests(ip) ==
  {Request("health", o, ip, FALSE, NoBody) : o \in Origins}
    \cup {Request("other", o, ip, x, NoBody) : o \in Origins, x \in BOOLEAN}
    \cup {Request("booking", o, ip, FALSE, ValidBooking) : o \in Origins}
    \cup {Request("contact", o, ip, FALSE, ValidContact) : o \in Origins}

\* the form submissions, each differing from a valid one in one field
FormRequests(ip) ==
  {Request("booking", "", ip, FALSE, x) : x \in BookingBodies}
    \cup {Request("contact", "", ip, FALSE, x) : x \in ContactBodies}

Requests == RouteRequests(Client) \cup FormRequests(Client)

\* the async handler of a form route, up to its first suspension: the
\* validation verdict and, when it passes, the message built for sendMail
Handled(b, route, body) ==
  IF route = "booking"
  THEN IF ~BookingValid(b, body) THEN [valid |-> FALSE, mail |-> NoMail]
       ELSE [valid |-> TRUE, mail |-> BookingMail(b, body)]
  ELSE IF ~ContactValid(b, body) THEN [valid |-> FALSE, mail |-> NoMail]
       ELSE [valid |-> TRUE, mail |-> ContactMail(b, body)]

(***************************************************************************)
(* State.                                                                  *)
(***************************************************************************)

VARIABLES
  build,       \* the deployed copy
  now,         \* the clock, in minutes
  globalHits,  \* the global limiter's store: client IP -> entry
  formHits,    \* formLimiter's store: client IP -> entry
  reqs,        \* the requests being handled and their outcome, by connection
  admits,      \* history: per client IP, when formLimiter last let a request pass
  san          \* a call of sanitize: its argument and, once it returned, its result

vars == <<build, now, globalHits, formHits, reqs, admits, san>>

\* the connections the model follows at once
MaxInflight == 2
Conns == 1..MaxInflight

\* a connection: pc is "idle" (no request yet), "await" (the handler is
\* suspended at await transporter.sendMail) or "done" (the response is sent);
\* attempts counts the calls of transporter.sendMail, transport is the state
\* of the last one ("none", "pending", "ok", "failed"), responses counts the
\* responses written, logged is what console.error received, used is the
\* request's count in formLimiter's window and at its arrival time
Idle ==
  [pc |-> "idle", in |-> NoRequest, response |-> NoResponse, mail |-> NoMail,
   attempts |-> 0, transport |-> "none", responses |-> 0, logged |-> "",
   used |-> 0, at |-> 0]

\* a request answered without reaching the transport
Answered(in, response, used, t) ==
  [pc |-> "done", in |-> in, response |-> response, mail |-> NoMail,
   attempts |-> 0, transport |-> "none", responses |-> 1, logged |-> "",
   used |-> used, at |-> t]

\* a request suspended at its one call of transporter.sendMail
Suspended(in, mail, used, t) ==
  [pc |-> "await", in |-> in, response |-> NoResponse, mail |-> mail,
   attempts |-> 1, transport |-> "pending", responses |-> 0, logged |-> "",
   used |-> used, at |-> t]

IsForm(route) == route \in {"booking", "contact"}

FormHandler(b, in, used, t) ==
  LET h == Handled(b, in.route, in.body)
  IN  IF ~h.valid THEN Answered(in, InvalidResponse(b), used, t)
      ELSE Suspended(in, h.mail, used, t)

\* One request through the middleware stack, in the order of the app.use and
\* route declarations: cors, the global limiter, then the route (formLimiter,
\* the validation chain and the handler for the two forms).  g and f are the
\* client's entries in the two stores; the result holds the entries and the
\* connection as the request leaves them.
Pipeline(b, in, g, f, t) ==
  LET g1 == Increment(g, t, GlobalWindow)
      f1 == Increment(f, t, FormWindow)
  IN  IF ~OriginAllowed(in.origin)
      THEN [global |-> g, form |-> f, admitted |-> FALSE,
            conn |-> Answered(in, CorsErrorResponse(b), 0, t)]
      ELSE IF OverLimit(g1, GlobalMax)
      THEN [global |-> g1, form |-> f, admitted |-> FALSE,
            conn |-> Answered(in, GlobalLimitResponse, 0, t)]
      ELSE IF in.route = "health"
      THEN [global |-> g1, form |-> f, admitted |-> FALSE,
            conn |-> Answered(in, HealthResponse, 0, t)]
      ELSE IF in.route = "other"
      THEN [global |-> g1, form |-> f, admitted |-> FALSE,
            conn |-> Answered(in, CatchAllResponse(b, in.indexExists), 0, t)]
      ELSE IF OverLimit(f1, FormMax)
      THEN [global |-> g1, form |-> f1, admitted |-> FALSE,
            conn |-> Answered(in, FormLimitResponse(b), f1.hits, t)]
      ELSE [global |-> g1, form |-> f1, admitted |-> TRUE,
            conn |-> FormHandler(b, in, f1.hits, t)]

\* the history keeps the last FormMax + 1 passes of a client
Remember(log, e) ==
  IF Len(log) <= FormMax THEN Append(log, e) ELSE Append(Tail(log), e)

(***************************************************************************)
(* Actions.                                                                *)
(***************************************************************************)

\* a server that takes no request while a handler waits for the transport
ReceiveSerial(c, in) ==
  /\ \A d \in Conns : reqs[d].pc # "await"
  /\ LET out == Pipeline(build, in, globalHits[in.ip], formHits[in.ip], now)
     IN  /\ globalHits' = [globalHits EXCEPT ![in.ip] = out.global]
         /\ formHits' = [formHits EXCEPT ![in.ip] = out.form]
         /\ reqs' = [reqs EXCEPT ![c] = out.conn]
         /\ admits' = IF out.admitted
                      THEN [admits EXCEPT ![in.ip] =
                              Remember(@, [t |-> now, resetTime |-> out.form.resetTime])]
                      ELSE admits
  /\ UNCHANGED <<build, now, san>>

\* a request arrives on connection c and runs until it is answered or
\* suspended at the transport
Receive(c, in) ==
  /\ reqs[c].pc # "await"
  /\ LET out == Pipeline(build, in, globalHits[in.ip], formHits[in.ip], now)
     IN  /\ globalHits' = [globalHits EXCEPT ![in.ip] = out.global]
         /\ formHits' = [formHits EXCEPT ![in.ip] = out.form]
         /\ reqs' = [reqs EXCEPT ![c] = out.conn]
         /\ admits' = IF out.admitted
                      THEN [admits EXCEPT ![in.ip] =
                              Remember(@, [t |-> now, resetTime |-> out.form.resetTime])]
                      ELSE admits
  /\ UNCHANGED <<build, now, san>>

\* transporter.sendMail resolves: the handler resumes after the await
SendMailResolves(c) ==
  /\ reqs[c].pc = "await"
  /\ reqs' = [reqs EXCEPT ![c] =
                [@ EXCEPT !.pc = "done",
                          !.transport = "ok",
                          !.response = SuccessResponse(build, reqs[c].in.route),
                          !.responses = @ + 1]]
  /\ UNCHANGED <<build, now, globalHits, formHits, admits, san>>

\* what the transport may reject with
TransportErrors == {"Invalid login: 535 authentication failed", "connect ECONNREFUSED"}

\* the catch block of a form handler
Catch(conn, b, err) ==
  [conn EXCEPT !.pc = "done",
               !.transport = "failed",
               !.response = FailedResponse(b, err),
               !.responses = @ + 1,
               !.logged = err]

\* transporter.sendMail rejects: the handler resumes in its catch block
SendMailRejects(c, err) ==
  /\ reqs[c].pc = "await"
  /\ reqs' = [reqs EXCEPT ![c] = Catch(@, build, err)]
  /\ UNCHANGED <<build, now, globalHits, formHits, admits, san>>

\* time passes
MaxTime == 16
Advance(d) ==
  /\ now + d <= MaxTime
  /\ now' = now + d
  /\ UNCHANGED <<build, globalHits, formHits, reqs, admits, san>>

\* no call of sanitize is followed
NoCall == [in |-> Undefined, out |-> <<>>, done |-> FALSE, re |-> <<>>, redone |-> FALSE]

\* a fresh server: empty limiter stores, no request yet
Started ==
  /\ build \in Builds
  /\ now = 0
  /\ globalHits = [ip \in IPs |-> NoHits]
  /\ formHits = [ip \in IPs |-> NoHits]
  /\ reqs = [c \in Conns |-> Idle]
  /\ admits = [ip \in IPs |-> <<>>]

Init ==
  /\ Started
  /\ san = NoCall

(***************************************************************************)
(* Spec: a client submits one request, any of those drawn, to a fresh      *)
(* server; a submission that reaches the transport is then resolved or     *)
(* rejected.                                                               *)
(***************************************************************************)

Submit ==
  \E in \in Requests :
    /\ reqs[1].pc = "idle"
    /\ Receive(1, in)

Resolve == \E c \in Conns : SendMailResolves(c)

Reject == \E c \in Conns, err \in TransportErrors : SendMailRejects(c, err)

Next == Submit \/ Resolve \/ Reject

Spec == Init /\ [][Next]_vars

(***************************************************************************)
(* Properties of one request (Spec).                                       *)
(***************************************************************************)

\* the request on connection c reached its route: cors let it pass and no
\* limiter refused it
ReachedRoute(c) ==
  /\ reqs[c].pc # "idle"
  /\ OriginAllowed(reqs[c].in.origin)
  /\ reqs[c].response.status # 429

\* a text field as the data model declares it: non-empty after trimming and
\* at most max characters
DeclaredText(x, max) ==
  /\ Trim(toStringValue(x)) # <<>>
  /\ Len(Trim(toStringValue(x))) <= max

\* a BookingSubmission as the data model declares it
DeclaredBooking(body) ==
  /\ DeclaredText(body.firstName, NameMax)
  /\ DeclaredText(body.lastName, NameMax)
  /\ IsEmail(toStringValue(body.email))
  /\ toStringValue(body.date) # <<>> /\ IsISO8601(toStringValue(body.date))
  /\ DeclaredText(body.time, TimeMax)

\* C1: a booking with a missing or invalid field is answered 400
\* {success:false, message:"Invalid form data..."} and never reaches the
\* transport.
C1_InvalidBookingRejected ==
  \A c \in Conns :
    (ReachedRoute(c) /\ reqs[c].in.route = "booking" /\ ~DeclaredBooking(reqs[c].in.body))
      => /\ reqs[c].pc = "done"
         /\ reqs[c].response = Json(400, "false", "Invalid form data. Please check all fields.")
         /\ reqs[c].attempts = 0

\* the request on connection c was accepted: validation passed and the
\* handler called the transport
Accepted(c) == reqs[c].attempts >= 1

\* C2: a valid booking whose transport call succeeds is answered
\* {success:true}, exactly one email was handed to the transport, and its
\* reply-to is the submitted address (compared up to the normalisation the
\* validation chain applies to every address).
C2_BookingReplyTo ==
  \A c \in Conns :
    (reqs[c].in.route = "booking" /\ reqs[c].transport = "ok")
      => /\ reqs[c].response.success = "true"
         /\ reqs[c].attempts = 1
         /\ reqs[c].mail.replyTo = NormalizeEmail(reqs[c].in.body.email.v)

\* the length of the message as express-validator measures it
MessageLength(body) == Len(Trim(toStringValue(body.message)))

\* C3 as stated: a contact message of fewer than 10 or more than 2000
\* characters, counted as submitted, is answered with the generic 400 and
\* no email is dispatched.
C3_Original ==
  \A c \in Conns :
    (ReachedRoute(c) /\ reqs[c].in.route = "contact"
       /\ (Len(toStringValue(reqs[c].in.body.message)) < MessageMin
           \/ Len(toStringValue(reqs[c].in.body.message)) > MessageMax))
      => /\ reqs[c].response.status = 400
         /\ reqs[c].attempts = 0

\* C3: a contact message that, after trimming, has fewer than 10 or more
\* than 2000 characters is answered with the generic 400 invalid-data
\* response and no email is dispatched.
C3_MessageLength ==
  \A c \in Conns :
    (ReachedRoute(c) /\ reqs[c].in.route = "contact"
       /\ (MessageLength(reqs[c].in.body) < MessageMin
           \/ MessageLength(reqs[c].in.body) > MessageMax))
      => /\ reqs[c].pc = "done"
         /\ reqs[c].response.status = 400
         /\ reqs[c].response.type = "json"
         /\ reqs[c].response.success = "false"
         /\ reqs[c].response.message \in {"Invalid data.", "Invalid form data. Please check all fields."}
         /\ reqs[c].attempts = 0
         /\ reqs[c].mail = NoMail

\* a contact message one character over the maximum after trimming was
\* refused
C3_Witness ==
  \E c \in Conns :
    /\ ReachedRoute(c) /\ reqs[c].in.route = "contact"
    /\ MessageLength(reqs[c].in.body) = MessageMax + 1
    /\ reqs[c].response.status = 400

\* C4: a request on any route with an Origin outside the allow-list is
\* answered 403 {success:false, message:"Access denied."} and dispatches no
\* email; a request with no Origin or an allowed one is not answered 403.
C4_OriginPolicy ==
  \A c \in Conns :
    reqs[c].pc # "idle"
      => IF OriginAllowed(reqs[c].in.origin)
         THEN reqs[c].response.status # 403
         ELSE /\ reqs[c].response = Json(403, "false", "Access denied.")
              /\ reqs[c].attempts = 0

\* C6: when the transport call fails the request ends with 500 and a
\* generic {success:false, message:"Failed to send..."} body holding none of
\* the transport's error detail, after exactly one delivery attempt.
C6_TransportFailure ==
  \A c \in Conns :
    reqs[c].transport = "failed"
      => /\ reqs[c].pc = "done"
         /\ reqs[c].response.status = 500
         /\ reqs[c].response.type = "json"
         /\ reqs[c].response.success = "false"
         /\ reqs[c].response.message
              \in {"Failed to send.", "Failed to send. Please try again or contact us directly."}
         /\ reqs[c].response.message \notin TransportErrors
         /\ reqs[c].logged \in TransportErrors
         /\ reqs[c].attempts = 1
         /\ reqs[c].responses = 1

\* the transport rejected a booking and a contact message was answered
C6_Witness ==
  \E c \in Conns :
    /\ reqs[c].transport = "failed"
    /\ reqs[c].in.route = "booking"
    /\ reqs[c].response.status = 500

\* "<b>Bob</b>" as the email body holds it
NameBobRendered == LT \o <<"b">> \o GT \o NameBob \o LT \o SLASH \o <<"b">> \o GT

\* C9 as stated: the embedded name is the submitted (trimmed) name with only
\* '<' and '>' replaced.
C9_Original ==
  \A c \in Conns :
    (reqs[c].in.route = "contact" /\ Accepted(c))
      => reqs[c].mail.name = EscapeAngles(Trim(reqs[c].in.body.name.v))

\* C9: for every accepted contact submission the name embedded in the email
\* body is the first 500 characters of the trimmed name with each of
\* & " ' < > / \ ` replaced by its entity; "<b>Bob</b>" renders as
\* "&lt;b&gt;Bob&lt;&#x2F;b&gt;", and the response is {success:true} once the
\* transport has succeeded.
C9_NameEscaped ==
  \A c \in Conns :
    (reqs[c].in.route = "contact" /\ Accepted(c))
      => /\ reqs[c].in.body.name.t = "string"
         /\ reqs[c].mail.name = Substring0(Escape(Trim(reqs[c].in.body.name.v)), SanitizeCap)
         /\ ~Contains(reqs[c].mail.name, "<") /\ ~Contains(reqs[c].mail.name, ">")
         /\ ~Contains(reqs[c].mail.name, "/") /\ ~Contains(reqs[c].mail.name, "'")
         /\ (reqs[c].in.body.name.v = NameBobTagged => reqs[c].mail.name = NameBobRendered)
         /\ (reqs[c].transport = "ok" => reqs[c].response.success = "true")

\* the scenario's contact submission was dispatched and answered
C9_Witness ==
  \E c \in Conns :
    /\ reqs[c].in.route = "contact"
    /\ reqs[c].in.body.name = Str(NameBobTagged)
    /\ reqs[c].transport = "ok"
    /\ reqs[c].mail.name = NameBobRendered

\* the text fields of a submission with their declared maxima
TextFieldsDeclared(route, body) ==
  IF route = "booking"
  THEN /\ DeclaredText(body.firstName, NameMax)
       /\ DeclaredText(body.lastName, NameMax)
       /\ DeclaredText(body.time, TimeMax)
  ELSE DeclaredText(body.name, ContactNameMax)

\* C10: a submission is accepted only if every text field is non-empty
\* after trimming and within its maximum (50, 50, 20; contact name 100); a
\* whitespace-only or over-long text field is answered 400 and no email is
\* dispatched.
C10_TextFields ==
  \A c \in Conns :
    (ReachedRoute(c) /\ IsForm(reqs[c].in.route)
       /\ ~TextFieldsDeclared(reqs[c].in.route, reqs[c].in.body))
      => /\ reqs[c].response.status = 400
         /\ reqs[c].attempts = 0

\* the message of a contact submission as the validation chain leaves it:
\* trimmed, then each of & " ' < > / \ ` replaced by its entity
EscapedMessage(body) == Escape(Trim(toStringValue(body.message)))

\* "a" followed by 125 '<', as the email body holds it: cut after "&lt"
MessageCutRendered == <<"a">> \o ReplaceAll(Rep("<", SanitizeCap \div Len(LT) - 1), "<", LT) \o SubSeq(LT, 1, 3)

\* C13: for every accepted contact submission the message embedded in the
\* email body is exactly the first 500 characters of the trimmed, escaped
\* message; a message that passes the 10-2000 validation but whose escaped
\* form is longer than 500 characters is dispatched truncated, and the
\* caller still receives the success response.
C13_MessageTruncated ==
  \A c \in Conns :
    (reqs[c].in.route = "contact" /\ Accepted(c))
      => /\ reqs[c].in.body.message.t = "string"
         /\ MessageLength(reqs[c].in.body) \in MessageMin..MessageMax
         /\ reqs[c].mail.message = Substring0(EscapedMessage(reqs[c].in.body), SanitizeCap)
         /\ Len(reqs[c].mail.message) <= SanitizeCap
         /\ (reqs[c].in.body.message.v = <<"a">> \o Rep("<", SanitizeCap \div Len(LT))
               => reqs[c].mail.message = MessageCutRendered)
         /\ (reqs[c].in.body.message.v = Rep("a", MessageMax)
               => reqs[c].mail.message = Rep("a", SanitizeCap))
         /\ (reqs[c].transport = "ok" => reqs[c].response = SuccessResponse(build, "contact"))

\* a message of 126 characters whose escaped form has 501 was dispatched cut
\* to 500 and answered with success
C13_Witness ==
  \E c \in Conns :
    /\ reqs[c].in.route = "contact"
    /\ reqs[c].transport = "ok"
    /\ Len(reqs[c].in.body.message.v) < SanitizeCap
    /\ Len(EscapedMessage(reqs[c].in.body)) > SanitizeCap
    /\ reqs[c].mail.message = MessageCutRendered
    /\ reqs[c].response.success = "true"

(***************************************************************************)
(* SpecSanitize: sanitize applied once to an argument drawn from the       *)
(* falsy values, short strings and strings around the 500-character cap.   *)
(***************************************************************************)

SanitizeInputs ==
  {Undefined, Null, Str(<<>>), Str(Rep(" ", 3)), Str(TextSpaced), Str(TextTag),
   Str(TextSpecials), Str(NameBobTagged)}
    \cup {Str(Rep(ch, n)) : ch \in {"a", "<", ">", "'", " "}, n \in Around(SanitizeCap)}
    \cup {Str(Rep("a", n) \o TextTag) : n \in Around(SanitizeCap)}
    \cup {Str(<<" ">> \o Rep("a", n) \o <<">", " ">>) : n \in Around(SanitizeCap)}
    \cup {Str(Rep("a", k) \o Rep(ch, n)) :
            k \in 0..Len(LT), ch \in {"<", ">", "'"}, n \in Around(SanitizeCap \div Len(LT))}
    \cup {Str(Rep("a", n) \o <<" ", "b">>) : n \in Around(SanitizeCap)}

InitSanitize ==
  /\ Started
  /\ san \in {[NoCall EXCEPT !.in = x] : x \in SanitizeInputs}

\* sanitize(str) is called and returns
ApplySanitize ==
  /\ ~san.done
  /\ san' = [san EXCEPT !.out = sanitize(build, san.in), !.done = TRUE]
  /\ UNCHANGED <<build, now, globalHits, formHits, reqs, admits>>

\* the result is passed to sanitize again
Resanitize ==
  /\ san.done /\ ~san.redone
  /\ san' = [san EXCEPT !.re = sanitize(build, Str(san.out)), !.redone = TRUE]
  /\ UNCHANGED <<build, now, globalHits, formHits, reqs, admits>>

NextSanitize == ApplySanitize \/ Resanitize

SpecSanitize == InitSanitize /\ [][NextSanitize]_vars

\* C8: sanitize is total: for any argument (empty, null-like, or a string
\* longer than 500 characters) it returns a string of at most 500 characters
\* holding no literal '<' or '>'.
C8_SanitizeTotal ==
  san.done
    => /\ Len(san.out) <= SanitizeCap
       /\ ~Contains(san.out, "<")
       /\ ~Contains(san.out, ">")
       /\ (Falsy(san.in) => san.out = <<>>)

\* sanitize returned for a string of angle brackets longer than the cap
C8_Witness ==
  /\ san.done
  /\ san.in.t = "string"
  /\ Len(san.in.v) > SanitizeCap
  /\ Contains(san.in.v, "<")
  /\ Len(san.out) = SanitizeCap

\* the entities sanitize writes in the copy b
SanitizeEntities(b) == IF SanitizeQuotes(b) THEN {LT, GT, QUOT, APOS} ELSE {LT, GT}

\* s before substring(0, 500) is longer than the cap and the cap falls
\* inside one of sanitize's entities: k >= 1 characters of the entity are
\* kept and at least one is cut off
CutInsideEntity(b, s) ==
  /\ Len(s) > SanitizeCap
  /\ \E e \in SanitizeEntities(b) : \E k \in 1..(Len(e) - 1) :
       /\ SanitizeCap - k + Len(e) <= Len(s)
       /\ SubSeq(s, SanitizeCap - k + 1, SanitizeCap - k + Len(e)) = e

\* the call followed cut its result inside an entity
CallCutInsideEntity ==
  /\ san.in.t = "string"
  /\ CutInsideEntity(build, Trim(SanitizeReplace(build, san.in.v)))

\* C12 as stated: there is an argument x whose sanitize(x) was cut inside
\* '&lt;' or '&gt;' and for which sanitize(sanitize(x)) differs from
\* sanitize(x).
C12_Original ==
  \E x \in SanitizeInputs :
    /\ x.t = "string"
    /\ CutInsideEntity(build, Trim(SanitizeReplace(build, x.v)))
    /\ sanitize(build, Str(sanitize(build, x))) # sanitize(build, x)

\* C12: re-sanitizing is a no-op whenever the cap cut the first result
\* inside an entity: sanitize(sanitize(x)) = sanitize(x) for every such x.
\* The two differ only when the cap leaves white space at the end of the
\* first result, which the second call trims.
C12_ResanitizeNoOp ==
  san.redone
    => /\ CallCutInsideEntity => san.re = san.out
       /\ san.re # san.out
            => /\ san.out # <<>>
               /\ san.out[Len(san.out)] \in WhiteSpace
               /\ Len(san.out) = SanitizeCap
               /\ Len(san.re) < SanitizeCap

\* a result cut after "&lt" was passed to sanitize again, and another one
\* ending in white space came back shorter
C12_Witness ==
  /\ san.redone
  /\ CallCutInsideEntity
  /\ Len(san.out) = SanitizeCap
  /\ SubSeq(san.out, SanitizeCap - 2, SanitizeCap) = SubSeq(LT, 1, 3)
  /\ san.re = san.out

(***************************************************************************)
(* SpecLimit: one client submits forms over time; formLimiter counts them  *)
(* in its 15-minute windows.                                               *)
(***************************************************************************)

LimitRequests ==
  {Request("booking", "", Client, FALSE, ValidBooking),
   Request("contact", "", Client, FALSE, ValidContact),
   Request("booking", "", Client, FALSE, NoBody)}

\* a form submission arrives; the client stops once it is MaxOver over the
\* limit of the current window
Arrive ==
  \E in \in LimitRequests :
    /\ Increment(formHits[in.ip], now, FormWindow).hits <= FormMax + MaxOver
    /\ Receive(1, in)

\* the clock moves on by a third of formLimiter's window
Tick == Advance(FormWindow \div 3)

NextLimit == Arrive \/ Resolve \/ Reject \/ Tick

SpecLimit == Init /\ [][NextLimit]_vars

\* C5 as stated: no 6 form submissions of one client are admitted within 15
\* minutes.
C5_Original ==
  \A ip \in IPs :
    Len(admits[ip]) = FormMax + 1
      => admits[ip][FormMax + 1].t - admits[ip][1].t >= FormWindow

\* C5: in one window of formLimiter (15 minutes from the client's first
\* counted submission) at most 5 form submissions of a client are admitted,
\* whatever their validation outcome: the 6th and later ones in the window
\* are answered 429 and dispatch no email, and a 6th admission comes only
\* after the window of the first has ended.
C5_FormWindow ==
  /\ \A ip \in IPs :
       Len(admits[ip]) = FormMax + 1
         => admits[ip][FormMax + 1].t >= admits[ip][1].resetTime
  /\ \A c \in Conns :
       (reqs[c].pc # "idle" /\ IsForm(reqs[c].in.route))
         => /\ reqs[c].used > FormMax
              => /\ reqs[c].response = FormLimitResponse(build)
                 /\ reqs[c].response.status = 429
                 /\ reqs[c].attempts = 0
            /\ reqs[c].used \in 1..FormMax => reqs[c].response.status # 429

\* the 6th submission of a window was answered 429 after 5 were admitted
C5_Witness ==
  \E c \in Conns :
    /\ reqs[c].used = FormMax + 1
    /\ reqs[c].response.status = 429
    /\ Len(admits[reqs[c].in.ip]) = FormMax
    /\ reqs[c].at - admits[reqs[c].in.ip][1].t < FormWindow

(***************************************************************************)
(* SpecFlood: one client sends requests from an allowed origin within one  *)
(* minute, until it is MaxOver over the global limit.                      *)
(***************************************************************************)

FloodRequests ==
  {Request("health", "", Client, FALSE, NoBody),
   Request("other", "", Client, FALSE, NoBody),
   Request("contact", "https://lwa.example", Client, FALSE, ValidContact),
   Request("booking", "", Client, FALSE, NoBody)}

Flood ==
  \E in \in FloodRequests :
    /\ globalHits[in.ip].hits <= GlobalMax + MaxOver
    /\ Receive(1, in)

NextFlood == Flood \/ Resolve \/ Reject

SpecFlood == Init /\ [][NextFlood]_vars

\* the failure paths: validation, origin policy, the two rate limits,
\* dispatch and unhandled errors
FailureStatus == {400, 403, 429, 500}

\* C7: every request receives exactly one response, and on every failure
\* path that response is a JSON object with success:false and a short
\* message.
C7_JsonFailures ==
  \A c \in Conns :
    reqs[c].pc = "done"
      => /\ reqs[c].responses = 1
         /\ reqs[c].response.status \in FailureStatus
              => /\ reqs[c].response.type = "json"
                 /\ reqs[c].response.success = "false"
                 /\ reqs[c].response.message # ""

(***************************************************************************)
(* SpecConcurrent: one client has several submissions in flight, one per   *)
(* connection; each is received when its connection is free, and each      *)
(* pending transport call resolves or rejects at any later moment.         *)
(***************************************************************************)

\* a booking without any field
EmptyBooking == Request("booking", "", Client, FALSE, NoBody)

ConcurrentRequests ==
  {Request("booking", "", Client, FALSE, ValidBooking),
   Request("contact", "", Client, FALSE, ValidContact),
   EmptyBooking}

SubmitAny ==
  \E c \in Conns, in \in ConcurrentRequests :
    /\ reqs[c].pc = "idle"
    /\ Receive(c, in)

NextConcurrent == SubmitAny \/ Resolve \/ Reject

SpecConcurrent == Init /\ [][NextConcurrent]_vars

\* the status a submission's own fields and own transport result call for
OwnStatus(b, in, transport) ==
  IF ~(IF in.route = "booking" THEN BookingValid(b, in.body) ELSE ContactValid(b, in.body))
  THEN 400
  ELSE IF transport = "ok" THEN 200 ELSE 500

\* C11: with several submissions in flight, one suspended at its transport
\* call never blocks another: whatever the other connections wait for, a
\* free connection can take a submission (stated for the booking without
\* fields, the guard being the same for every submission) and any pending
\* transport call can resolve or reject, in any order relative to arrival;
\* a waiting submission holds the email built from its own fields, and the
\* outcome of each submission admitted by the middleware (success / 400 /
\* 500) depends only on its own fields and its own transport result.
C11_Independent ==
  \A c \in Conns :
    /\ reqs[c].pc = "idle" => ENABLED Receive(c, EmptyBooking)
    /\ reqs[c].pc = "await"
         => /\ ENABLED SendMailResolves(c)
            /\ \A err \in TransportErrors : ENABLED SendMailRejects(c, err)
            /\ reqs[c].mail = Handled(build, reqs[c].in.route, reqs[c].in.body).mail
            /\ reqs[c].attempts = 1
    /\ reqs[c].pc = "done"
         => /\ reqs[c].responses = 1
            /\ reqs[c].response.status = OwnStatus(build, reqs[c].in, reqs[c].transport)
            /\ (reqs[c].in.body = NoBody <=> reqs[c].response.status = 400)
            /\ (reqs[c].transport = "ok" <=> reqs[c].response.status = 200)
            /\ (reqs[c].transport = "failed" <=> reqs[c].response.status = 500)
            /\ (reqs[c].response.status = 400 <=> reqs[c].attempts = 0)

\* the submission that arrived second was dispatched and answered with
\* success while the one that arrived first is still waiting for the
\* transport
C11_Witness ==
  \E c, d \in Conns :
    /\ reqs[c].pc = "await" /\ reqs[c].used = 1
    /\ reqs[d].pc = "done" /\ reqs[d].used = 2
    /\ reqs[d].transport = "ok"
    /\ reqs[d].response.success = "true"

====
